---- MODULE Spec2Model ----
(***************************************************************************)
(* A model of parser.py, the kolesa.kz listings crawler: the retry policy  *)
(* of the HTTP session, the page classifier, the paginator, the two card   *)
(* extractors and the page loop of main().                                 *)
(*                                                                         *)
(* Text is a sequence of one-character strings, so that strip(),           *)
(* isdigit(), int() and the digit filter of _norm_price are computed and   *)
(* not assumed.  A python None is the record None / NoneInt, so that an    *)
(* absent value and an empty text stay different values.                   *)
(***************************************************************************)
EXTENDS Integers, Sequences, FiniteSets, TLC

\* ------------------------------------------------------------ bounds
MaxAnchors == 2      \* anchors of a pager (paginator specification)
MaxCards == 2        \* cards of one schema on a page (extractor specification)
MaxBlocked == 6      \* pages of one run that fail classification
MaxNetErrors == 2    \* pages of one run whose fetch raises

\* ------------------------------------------------------------ program constants
MAX_PAGES == 200
STOP_AFTER_BLOCKS == 5
PARTIAL_EVERY == 20
RETRY_TOTAL == 6
RETRY_CONNECT == 6
RETRY_READ == 6
BASE_URL == <<"https://kolesa.kz">>
status_forcelist == {429, 500, 502, 503, 504}
RETRY_AFTER_STATUS_CODES == {413, 429, 503}
respect_retry_after_header == TRUE
\* the default of Retry: a call that ran out of retries on a status raises
raise_on_status_true == TRUE

raise_on_status == FALSE

\* ------------------------------------------------------------ text
Digits == {"0", "1", "2", "3", "4", "5", "6", "7", "8", "9"}

DigitVal(c) ==
  CASE c = "0" -> 0 [] c = "1" -> 1 [] c = "2" -> 2 [] c = "3" -> 3
    [] c = "4" -> 4 [] c = "5" -> 5 [] c = "6" -> 6 [] c = "7" -> 7
    [] c = "8" -> 8 [] c = "9" -> 9

DigitChar(d) ==
  CASE d = 0 -> "0" [] d = 1 -> "1" [] d = 2 -> "2" [] d = 3 -> "3"
    [] d = 4 -> "4" [] d = 5 -> "5" [] d = 6 -> "6" [] d = 7 -> "7"
    [] d = 8 -> "8" [] d = 9 -> "9"

None == [some |-> FALSE, v |-> <<>>]
NoneInt == [some |-> FALSE, v |-> 0]
Some(x) == [some |-> TRUE, v |-> x]

\* python truthiness of an Optional[str]: neither None nor ""
Truthy(o) == o.some /\ o.v # <<>>

RECURSIVE LStrip(_)
LStrip(s) == IF s # <<>> /\ Head(s) = " " THEN LStrip(Tail(s)) ELSE s

RECURSIVE RStrip(_)
RStrip(s) ==
  IF s # <<>> /\ s[Len(s)] = " " THEN RStrip(SubSeq(s, 1, Len(s) - 1)) ELSE s

\* str.strip(), and get_text(strip=True) of a node holding one text
Strip(s) == RStrip(LStrip(s))

\* str.isdigit(): not empty and every character a digit
IsDigit(s) == s # <<>> /\ \A k \in 1..Len(s) : s[k] \in Digits

RECURSIVE ToInt(_)
ToInt(s) ==
  IF s = <<>> THEN 0 ELSE 10 * ToInt(SubSeq(s, 1, Len(s) - 1)) + DigitVal(s[Len(s)])

\* re.sub(r"[^\d]", "", text)
RECURSIVE OnlyDigits(_)
OnlyDigits(s) ==
  IF s = <<>> THEN <<>>
  ELSE IF Head(s) \in Digits THEN <<Head(s)>> \o OnlyDigits(Tail(s))
  ELSE OnlyDigits(Tail(s))

SetMax(S) == CHOOSE x \in S : \A y \in S : y <= x
IntMin(a, b) == IF a <= b THEN a ELSE b

\* ------------------------------------------------------------ HTML
\* A page is what the program reads of it: the markers present in the raw
\* text outside any card, its pager (absent, or the texts of its anchors),
\* its div.a-card nodes and its div.a-elem nodes.
NoNode == [present |-> FALSE, tag |-> "", cls |-> "", text |-> <<>>, href |-> None]
Node(tag, cls, text, href) ==
  [present |-> TRUE, tag |-> tag, cls |-> cls, text |-> text, href |-> href]

NoPager == [present |-> FALSE, anchors |-> <<>>]
Pager(anchors) == [present |-> TRUE, anchors |-> anchors]

Html(markers, pager, cards, blocks) ==
  [markers |-> markers, pager |-> pager, cards |-> cards, blocks |-> blocks]

\* the class names found in the raw text of a page
NodeMarkers(n) == IF n.present THEN {n.cls} ELSE {}

CardMarkers(c) ==
  IF c.title.present THEN {"a-card__title", "a-card__link"} ELSE {}

BlockMarkers(b) == {"a-elem"} \cup NodeMarkers(b.title) \cup NodeMarkers(b.price)

RawMarkers(html) ==
  html.markers
    \cup UNION {CardMarkers(html.cards[k]) : k \in 1..Len(html.cards)}
    \cup UNION {BlockMarkers(html.blocks[k]) : k \in 1..Len(html.blocks)}

is_listings_page(html) ==
  LET m == RawMarkers(html) IN
    \/ "a-card__title" \in m /\ "a-card__link" \in m
    \/ "a-elem" \in m /\ ("a-el-info-title" \in m \/ "a-el-info-price" \in m)

\* ------------------------------------------------------------ paginator
PagerNums(pager) ==
  {ToInt(Strip(pager.anchors[k])) :
     k \in {j \in 1..Len(pager.anchors) : IsDigit(Strip(pager.anchors[j]))}}

pages_count(html) ==
  IF ~html.pager.present THEN 1
  ELSE IF PagerNums(html.pager) = {} THEN 1
  ELSE IntMin(SetMax(PagerNums(html.pager)), MAX_PAGES)

\* ------------------------------------------------------------ extractor
_norm_price(text) ==
  IF ~Truthy(text) THEN NoneInt
  ELSE IF OnlyDigits(text.v) = <<>> THEN NoneInt
  ELSE Some(ToInt(OnlyDigits(text.v)))

NodeText(n) == IF n.present THEN Some(Strip(n.text)) ELSE None

PriceOf(price_raw) == IF Truthy(price_raw) THEN _norm_price(price_raw) ELSE NoneInt

Row(name, price, price_raw, desc, link) ==
  [name |-> name, price |-> price, price_raw |-> price_raw, desc |-> desc, link |-> link]

\* link = (BASE_URL + href) if href and href.startswith("/") else href
NewLink(href) ==
  IF Truthy(href) /\ Head(href.v) = "/" THEN Some(BASE_URL \o href.v) ELSE href

NewCardRows(c) ==
  IF ~c.title.present THEN <<>>
  ELSE <<Row(Some(Strip(c.title.text)), PriceOf(NodeText(c.price)),
             NodeText(c.price), NodeText(c.desc), NewLink(c.title.href))>>

RECURSIVE parse_cards_new(_)
parse_cards_new(cards) ==
  IF cards = <<>> THEN <<>>
  ELSE NewCardRows(Head(cards)) \o parse_cards_new(Tail(cards))

OldLink(title) ==
  IF title.present /\ Truthy(title.href)
  THEN (IF Head(title.href.v) = "/" THEN Some(BASE_URL \o title.href.v) ELSE title.href)
  ELSE None

OldBlockRows(b) ==
  IF Truthy(NodeText(b.title))
  THEN <<Row(NodeText(b.title), PriceOf(NodeText(b.price)),
             NodeText(b.price), NodeText(b.desc), OldLink(b.title))>>
  ELSE <<>>

RECURSIVE parse_cards_old(_)
parse_cards_old(blocks) ==
  IF blocks = <<>> THEN <<>>
  ELSE OldBlockRows(Head(blocks)) \o parse_cards_old(Tail(blocks))

parse_listings(html) ==
  LET data == parse_cards_new(html.cards) IN
    IF data # <<>> THEN data ELSE parse_cards_old(html.blocks)

\* ------------------------------------------------------------ state
VARIABLES
  pc,                  \* main(): "start", "loop", "break", "done", "fatal", "crashed"
  i,                   \* the page index of the for loop
  last_page,
  all_rows,
  consecutive_blocks,
  debug_files,         \* the page numbers n with a debug_page_<n>.html on disk
  partial_csv,         \* cars_kolesa_partial.csv
  final_csv,           \* cars_kolesa.csv
  site,                \* what the site serves during this run
  served,              \* history: what each fetch so far was answered with
  f_pc,                \* one session.get: "idle", "sending", "returned", "raised"
  f_total, f_connect, f_read,   \* the Retry counters left
  f_sent,              \* requests sent by this call
  f_last,              \* what the last request ended with
  p_pc, p_html, p_result,       \* one call of pages_count
  x_pc, x_html, x_rows          \* one call of parse_listings

mainVars == <<pc, i, last_page, all_rows, consecutive_blocks, debug_files,
              partial_csv, final_csv, site, served>>
fetchVars == <<f_pc, f_total, f_connect, f_read, f_sent, f_last>>
pagerVars == <<p_pc, p_html, p_result>>
parseVars == <<x_pc, x_html, x_rows>>
vars == <<mainVars, fetchVars, pagerVars, parseVars>>

\* ------------------------------------------------------------ output
NoFile == [written |-> FALSE, rows |-> <<>>]

\* save_to_csv overwrites the file with the header and every row given
save_to_csv(rows) == [written |-> TRUE, rows |-> rows]

\* ------------------------------------------------------------ the site
Txt2(n) == <<DigitChar((n \div 10) % 10), DigitChar(n % 10)>>

SiteCard(k, j) ==
  [title |-> Node("a", "a-card__link", <<" ", "K">> \o Txt2(k) \o <<DigitChar(j)>>,
                  Some(<<"/", "a">> \o Txt2(k))),
   price |-> IF j = 1 THEN Node("span", "a-card__price", <<DigitChar(j), " ", "0", "T">>, None)
             ELSE NoNode,
   desc |-> NoNode]

SiteBlock(k, j) ==
  [title |-> IF j = 1 THEN Node("a", "a-el-info-title", <<"E">> \o Txt2(k), Some(<<"h", "/">>))
             ELSE Node("span", "a-el-info-title", <<"E">> \o Txt2(k) \o <<"b">>, None),
   price |-> IF j = 1 THEN Node("span", "a-el-info-price", <<"n", "/", "a">>, None)
             ELSE NoNode,
   desc |-> NoNode]

\* every sixth page of the site has no card, the others one or two; the class
\* names also occur in the page's scripts, so a page of no cards is still a
\* listings page
SiteCount(k) == IF k % 6 = 0 THEN 0 ELSE 1 + (k % 2)
SiteCards(k) == [j \in 1..SiteCount(k) |-> SiteCard(k, j)]
SiteBlocks(k) == [j \in 1..SiteCount(k) |-> SiteBlock(k, j)]

ListingHtml(k, s) ==
  IF s.schema = "new"
  THEN Html({"a-card__title", "a-card__link"},
            IF k = 1 THEN s.pager ELSE NoPager, SiteCards(k), <<>>)
  ELSE Html({"a-elem", "a-el-info-title"},
            IF k = 1 THEN s.pager ELSE NoPager, <<>>, SiteBlocks(k))

\* a block page, a captcha, an error page
BlockHtml == Html({}, NoPager, <<>>, <<>>)

ShortPager == Pager(<< <<"1">>, <<" ", "3", " ">>, <<">">> >>)

SitePagers ==
  { NoPager,
    Pager(<< <<"0">> >>),
    ShortPager,
    Pager(<< <<"1">>, <<"2">>, <<"4", "1">> >>) }

\* the sites of the runs explored: the primary schema under every pager, the
\* legacy schema on a short site
Sites ==
  [schema : {"new"}, pager : SitePagers]
    \cup [schema : {"old"}, pager : {NoPager, ShortPager}]

HtmlOf(answer, k, s) == IF answer = "listing" THEN ListingHtml(k, s) ELSE BlockHtml

\* the pages on which the explored runs let the site answer with a block page:
\* the first pages, and the pages of the partial snapshots
BlockPages == (1..9) \cup {19, 20, 40}

\* the pages after the first on which the explored runs let the fetch raise: the
\* first of the loop, one amid the others, and the pages of the partial snapshots
RaisePages == {2, 7, 10, 20, 40}

\* what a fetch of page k may return when it does not raise
Responses(k, s) == IF k \in BlockPages THEN {"listing", "block"} ELSE {"listing"}

Count(seq, a) == Cardinality({k \in 2..Len(seq) : seq[k] = a})

\* ------------------------------------------------------------ main()
Init_main ==
  /\ pc = "start" /\ i = 1 /\ last_page = 1 /\ all_rows = <<>>
  /\ consecutive_blocks = 0 /\ debug_files = {}
  /\ partial_csv = NoFile /\ final_csv = NoFile
  /\ served = <<>>

Idle_main == Init_main /\ site = [schema |-> "new", pager |-> NoPager]
Idle_fetch ==
  /\ f_pc = "idle" /\ f_total = RETRY_TOTAL /\ f_connect = RETRY_CONNECT
  /\ f_read = RETRY_READ /\ f_sent = 0
  /\ f_last = [kind |-> "none", status |-> 0, retry_after |-> FALSE]
Idle_pager == p_pc = "idle" /\ p_html = BlockHtml /\ p_result = 0
Idle_parse == x_pc = "idle" /\ x_html = BlockHtml /\ x_rows = <<>>

Init == Init_main /\ site \in Sites /\ Idle_fetch /\ Idle_pager /\ Idle_parse

\* line 203: the first fetch raises; nothing catches it
FirstFetchRaises ==
  /\ pc = "start"
  /\ pc' = "crashed"
  /\ served' = <<"neterr">>
  /\ UNCHANGED <<i, last_page, all_rows, consecutive_blocks, debug_files,
                 partial_csv, final_csv, site>>
  /\ UNCHANGED <<fetchVars, pagerVars, parseVars>>

\* the return of line 208 is missing
FirstNotListings_goes_on ==
  /\ pc = "start"
  /\ \E a \in Responses(1, site) :
       /\ ~is_listings_page(HtmlOf(a, 1, site))
       /\ served' = <<a>>
       /\ last_page' = pages_count(HtmlOf(a, 1, site))
       /\ all_rows' = parse_listings(HtmlOf(a, 1, site))
  /\ debug_files' = debug_files \cup {1}
  /\ consecutive_blocks' = 0
  /\ i' = 2
  /\ pc' = "loop"
  /\ UNCHANGED <<partial_csv, final_csv, site>>
  /\ UNCHANGED <<fetchVars, pagerVars, parseVars>>

\* lines 203-208
FirstNotListings ==
  /\ pc = "start"
  /\ \E a \in Responses(1, site) :
       /\ ~is_listings_page(HtmlOf(a, 1, site))
       /\ served' = <<a>>
  /\ debug_files' = debug_files \cup {1}
  /\ pc' = "fatal"
  /\ UNCHANGED <<i, last_page, all_rows, consecutive_blocks, partial_csv, final_csv, site>>
  /\ UNCHANGED <<fetchVars, pagerVars, parseVars>>

\* lines 203-216
FirstListings ==
  /\ pc = "start"
  /\ \E a \in Responses(1, site) :
       /\ is_listings_page(HtmlOf(a, 1, site))
       /\ served' = <<a>>
       /\ last_page' = pages_count(HtmlOf(a, 1, site))
       /\ all_rows' = parse_listings(HtmlOf(a, 1, site))
  /\ consecutive_blocks' = 0
  /\ i' = 2
  /\ pc' = "loop"
  /\ UNCHANGED <<debug_files, partial_csv, final_csv, site>>
  /\ UNCHANGED <<fetchVars, pagerVars, parseVars>>

InLoop == pc = "loop" /\ i <= last_page

\* the failed request is counted as a blocked page
PageNetworkError_counted ==
  /\ pc = "loop" /\ i <= last_page
  /\ i \in RaisePages
  /\ Count(served, "neterr") < MaxNetErrors
  /\ served' = Append(served, "neterr")
  /\ i' = i + 1
  /\ consecutive_blocks' = consecutive_blocks + 1
  /\ UNCHANGED <<pc, last_page, all_rows, debug_files, partial_csv, final_csv, site>>
  /\ UNCHANGED <<fetchVars, pagerVars, parseVars>>

\* lines 221-226
PageNetworkError ==
  /\ InLoop
  /\ i \in RaisePages
  /\ Count(served, "neterr") < MaxNetErrors
  /\ served' = Append(served, "neterr")
  /\ i' = i + 1
  /\ UNCHANGED <<pc, last_page, all_rows, consecutive_blocks, debug_files,
                 partial_csv, final_csv, site>>
  /\ UNCHANGED <<fetchVars, pagerVars, parseVars>>

BlocksAfterFailure(n) == n + 1

\* the comparison off by one
StopNow_late(n) == n > STOP_AFTER_BLOCKS

StopNow(n) == n >= STOP_AFTER_BLOCKS

\* lines 228-236
PageNotListings ==
  /\ InLoop
  /\ Count(served, "block") < MaxBlocked
  /\ \E a \in Responses(i, site) :
       /\ ~is_listings_page(HtmlOf(a, i, site))
       /\ served' = Append(served, a)
  /\ consecutive_blocks' = BlocksAfterFailure(consecutive_blocks)
  /\ debug_files' = debug_files \cup {i}
  /\ IF StopNow(consecutive_blocks')
     THEN pc' = "break" /\ i' = i
     ELSE pc' = pc /\ i' = i + 1
  /\ UNCHANGED <<last_page, all_rows, partial_csv, final_csv, site>>
  /\ UNCHANGED <<fetchVars, pagerVars, parseVars>>

\* the counter is not reset
BlocksAfterListings_kept(n) == n

BlocksAfterListings(n) == 0

\* the new rows are put in front
Extend_front(rows, more) == more \o rows

Extend(rows, more) == rows \o more

\* the snapshot is taken one page late
IsPartialPage_late(n) == n % PARTIAL_EVERY = 1

IsPartialPage(n) == n % PARTIAL_EVERY = 0

\* lines 238-248
PageListings ==
  /\ InLoop
  /\ \E a \in Responses(i, site) :
       /\ is_listings_page(HtmlOf(a, i, site))
       /\ served' = Append(served, a)
       /\ all_rows' = Extend(all_rows, parse_listings(HtmlOf(a, i, site)))
  /\ consecutive_blocks' = BlocksAfterListings(consecutive_blocks)
  /\ partial_csv' = IF IsPartialPage(i) THEN save_to_csv(all_rows') ELSE partial_csv
  /\ i' = i + 1
  /\ UNCHANGED <<pc, last_page, debug_files, final_csv, site>>
  /\ UNCHANGED <<fetchVars, pagerVars, parseVars>>

\* line 250, after the range is exhausted or after the break
SaveFinal ==
  /\ \/ pc = "loop" /\ i > last_page
     \/ pc = "break"
  /\ final_csv' = save_to_csv(all_rows)
  /\ pc' = "done"
  /\ UNCHANGED <<i, last_page, all_rows, consecutive_blocks, debug_files,
                 partial_csv, site, served>>
  /\ UNCHANGED <<fetchVars, pagerVars, parseVars>>

Next_main ==
  \/ FirstFetchRaises
  \/ FirstNotListings
  \/ FirstListings
  \/ PageNetworkError
  \/ PageNotListings
  \/ PageListings
  \/ SaveFinal

Spec == Init /\ [][Next_main]_vars

\* ------------------------------------------------------------ fetch()
\* One session.get under the Retry of build_session: urllib3 sends the request
\* again until Retry.increment finds a counter below zero.
Statuses == {200, 404, 413, 429, 503}

Exhausted(total, connect, read) == total < 0 \/ connect < 0 \/ read < 0

\* Retry.is_retry for a GET
is_retry(status_code, has_retry_after, total) ==
  \/ status_code \in status_forcelist
  \/ /\ total # 0
     /\ respect_retry_after_header
     /\ has_retry_after
     /\ status_code \in RETRY_AFTER_STATUS_CODES

Init_fetch ==
  /\ f_pc = "sending" /\ f_total = RETRY_TOTAL /\ f_connect = RETRY_CONNECT
  /\ f_read = RETRY_READ /\ f_sent = 0
  /\ f_last = [kind |-> "none", status |-> 0, retry_after |-> FALSE]

\* the connection cannot be made: Retry.increment on a connection error
RequestConnectError ==
  /\ f_pc = "sending"
  /\ f_sent' = f_sent + 1
  /\ f_total' = f_total - 1
  /\ f_connect' = f_connect - 1
  /\ f_read' = f_read
  /\ f_last' = [kind |-> "connect", status |-> 0, retry_after |-> FALSE]
  /\ f_pc' = IF Exhausted(f_total', f_connect', f_read') THEN "raised" ELSE "sending"
  /\ UNCHANGED <<mainVars, pagerVars, parseVars>>

\* the response times out or breaks off: Retry.increment on a read error
RequestReadError ==
  /\ f_pc = "sending"
  /\ f_sent' = f_sent + 1
  /\ f_total' = f_total - 1
  /\ f_connect' = f_connect
  /\ f_read' = f_read - 1
  /\ f_last' = [kind |-> "read", status |-> 0, retry_after |-> FALSE]
  /\ f_pc' = IF Exhausted(f_total', f_connect', f_read') THEN "raised" ELSE "sending"
  /\ UNCHANGED <<mainVars, pagerVars, parseVars>>

\* a response arrives: it is retried, returned, or (raise_on_status) raised
RequestResponse ==
  /\ f_pc = "sending"
  /\ f_sent' = f_sent + 1
  /\ \E st \in Statuses, ra \in BOOLEAN :
       /\ f_last' = [kind |-> "status", status |-> st, retry_after |-> ra]
       /\ IF is_retry(st, ra, f_total)
          THEN /\ f_total' = f_total - 1
               /\ f_pc' = IF Exhausted(f_total', f_connect, f_read)
                          THEN (IF raise_on_status THEN "raised" ELSE "returned")
                          ELSE "sending"
          ELSE /\ f_total' = f_total
               /\ f_pc' = "returned"
  /\ UNCHANGED <<f_connect, f_read, mainVars, pagerVars, parseVars>>

Next_fetch == RequestConnectError \/ RequestReadError \/ RequestResponse

InitFetch == Idle_main /\ Init_fetch /\ Idle_pager /\ Idle_parse

SpecFetch == InitFetch /\ [][Next_fetch]_vars

\* ------------------------------------------------------------ pages_count()
AnchorTexts ==
  { <<"0">>, <<"7">>, <<" ", "1", "2", " ">>, <<"2", "0", "0">>, <<"2", "5", "0">>,
    <<">">>, <<>>, <<"1", "a">> }

SeqsUpTo(S, n) == UNION {[1..m -> S] : m \in 0..n}

Pagers == {NoPager} \cup {Pager(a) : a \in SeqsUpTo(AnchorTexts, MaxAnchors)}

Init_pager ==
  /\ p_pc = "input"
  /\ p_html \in {Html({"a-card__title", "a-card__link"}, pg, <<>>, <<>>) : pg \in Pagers}
  /\ p_result = 0

CallPagesCount ==
  /\ p_pc = "input"
  /\ p_result' = pages_count(p_html)
  /\ p_pc' = "done"
  /\ UNCHANGED <<p_html, mainVars, fetchVars, parseVars>>

Next_pager == CallPagesCount

InitPager == Idle_main /\ Idle_fetch /\ Init_pager /\ Idle_parse

SpecPager == InitPager /\ [][Next_pager]_vars

\* ------------------------------------------------------------ parse_listings()
NewCards ==
  { [title |-> NoNode, price |-> Node("span", "price", <<"9">>, None), desc |-> NoNode],
    [title |-> Node("a", "a-card__link", <<"K", "i", "a">>, Some(<<"/", "a">>)),
     price |-> Node("span", "a-card__price", <<"1", " ", "2", " ", "T">>, None),
     desc |-> Node("div", "a-card__description", <<" ", "d">>, None)],
    [title |-> Node("a", "a-card__link", <<>>, None),
     price |-> NoNode, desc |-> NoNode],
    [title |-> Node("a", "a-card__link", <<" ", " ">>, Some(<<"h", "/">>)),
     price |-> Node("span", "price", <<"n", "/", "a">>, None),
     desc |-> NoNode] }

OldBlocks ==
  { [title |-> Node("a", "a-el-info-title", <<"E", "1">>, Some(<<"/", "b">>)),
     price |-> Node("span", "a-el-info-price", <<"5", " ", "0">>, None),
     desc |-> Node("div", "a-el-info-description", <<"d">>, None)],
    [title |-> Node("span", "a-el-info-title", <<"E", "2", " ">>, None),
     price |-> NoNode, desc |-> NoNode],
    [title |-> NoNode,
     price |-> Node("span", "a-el-info-price", <<"7">>, None), desc |-> NoNode],
    [title |-> Node("a", "a-el-info-title", <<" ">>, Some(<<"/", "c">>)),
     price |-> NoNode, desc |-> NoNode] }

Init_parse ==
  /\ x_pc = "input"
  /\ x_html \in {Html({}, NoPager, c, b) :
                   c \in SeqsUpTo(NewCards, MaxCards), b \in SeqsUpTo(OldBlocks, MaxCards)}
  /\ x_rows = <<>>

CallParseListings ==
  /\ x_pc = "input"
  /\ x_rows' = parse_listings(x_html)
  /\ x_pc' = "done"
  /\ UNCHANGED <<x_html, mainVars, fetchVars, pagerVars>>

Next_parse == CallParseListings

InitParse == Idle_main /\ Idle_fetch /\ Idle_pager /\ Init_parse

SpecParse == InitParse /\ [][Next_parse]_vars

\* ------------------------------------------------------------ what the run was served
\* page k was fetched and its body is a listings page
Listed(k) == served[k] # "neterr" /\ is_listings_page(HtmlOf(served[k], k, site))

\* page k was fetched and its body is not a listings page
Blocked(k) == served[k] # "neterr" /\ ~is_listings_page(HtmlOf(served[k], k, site))

\* the records of the pages 1..n that were fetched and are listings pages, in page order
RECURSIVE RowsOfPages(_)
RowsOfPages(n) ==
  IF n = 0 THEN <<>>
  ELSE LET html == HtmlOf(served[n], n, site) IN
         RowsOfPages(n - 1)
           \o (IF served[n] # "neterr" /\ is_listings_page(html)
               THEN parse_listings(html) ELSE <<>>)

\* the failure count after the pages 1..n: a listings page sets it to 0, a page
\* that is no listings page adds 1, a page whose fetch raised leaves it
RECURSIVE Streak(_)
Streak(n) ==
  IF n <= 1 THEN 0
  ELSE IF Listed(n) THEN 0
  ELSE IF Blocked(n) THEN Streak(n - 1) + 1
  ELSE Streak(n - 1)

FileWith(rows) == [written |-> TRUE, rows |-> rows]

Passed == pc \in {"loop", "break", "done"}

\* ------------------------------------------------------------ claims
\* C1: a run that passed the first page's classification ends only by the final
\* flush: until then the primary file is not written, and when the loop is over
\* (range exhausted, or left by the break) the flush is the step to take; once
\* done, nothing follows, and the primary file holds the records of page 1 and
\* of every later page that was fetched and is a listings page, in page order.
C1_FinalFlush ==
  /\ pc \in {"loop", "break"} =>
       /\ ~final_csv.written
       /\ (pc = "break" \/ i > last_page) => ENABLED SaveFinal
       /\ (pc = "loop" /\ i <= last_page) => ~ENABLED SaveFinal
  /\ pc = "done" =>
       /\ final_csv = FileWith(RowsOfPages(Len(served)))
       /\ ~ENABLED Next_main

C1_Witness ==
  /\ pc = "done" /\ last_page = 41 /\ Len(served) = 41
  /\ \E k \in 2..41 : served[k] = "block"
  /\ \E k \in 2..41 : served[k] = "neterr"
  /\ Len(final_csv.rows) > 40

\* C2: the failure counter is 0 after page 1, 0 after every listings page, one
\* more after every fetched page that is no listings page, always within
\* 0..STOP_AFTER_BLOCKS, and the loop is left, with no further fetch, exactly when
\* it reaches STOP_AFTER_BLOCKS.
C2_Counter ==
  /\ consecutive_blocks \in 0..STOP_AFTER_BLOCKS
  /\ Passed =>
       /\ consecutive_blocks = Streak(Len(served))
       /\ consecutive_blocks = STOP_AFTER_BLOCKS =>
            pc \in {"break", "done"} /\ i = Len(served)
       /\ pc = "break" => consecutive_blocks = STOP_AFTER_BLOCKS
       /\ pc = "loop" => i = Len(served) + 1

C2_Witness ==
  /\ pc = "break"
  /\ \E k \in 2..Len(served) : \E j \in (k + 1)..Len(served) :
       served[k] = "block" /\ served[j] = "listing"
  /\ \E k \in 2..Len(served) : served[k] = "neterr" /\ Streak(k) > 0

\* C3: when pages p..p+T-1 (T = STOP_AFTER_BLOCKS) all fail classification after
\* pages 1..p-1 all classified as listings, the loop is left at page p+T-1, no
\* later page is fetched, the debug files are exactly those of pages p..p+T-1,
\* and the final flush holds the records of pages 1..p-1 only.
C3_AbortAfterStreak ==
  \A p \in 2..Len(served) :
    (/\ p + STOP_AFTER_BLOCKS - 1 <= Len(served)
     /\ \A k \in p..(p + STOP_AFTER_BLOCKS - 1) : Blocked(k)
     /\ \A k \in 1..(p - 1) : Listed(k))
    => /\ Len(served) = p + STOP_AFTER_BLOCKS - 1
       /\ i = p + STOP_AFTER_BLOCKS - 1
       /\ pc \in {"break", "done"}
       /\ debug_files = p..(p + STOP_AFTER_BLOCKS - 1)
       /\ pc = "break" => ENABLED SaveFinal /\ ~final_csv.written
       /\ pc = "done" => final_csv = FileWith(RowsOfPages(p - 1))

C3_Witness ==
  /\ pc = "done" /\ last_page = 41 /\ Len(served) = 9
  /\ \A k \in 1..4 : Listed(k)
  /\ debug_files = 5..9
  /\ final_csv = FileWith(RowsOfPages(4)) /\ Len(final_csv.rows) = 6

\* C4: when page 1 is fetched and is no listings page, the run is over at once:
\* one debug file, that of page 1, no further fetch, no primary file and no
\* partial snapshot.
C4_FirstPageFatal ==
  (Len(served) >= 1 /\ Blocked(1)) =>
    /\ pc = "fatal"
    /\ debug_files = {1}
    /\ Len(served) = 1
    /\ ~final_csv.written /\ ~partial_csv.written
    /\ ~ENABLED Next_main

C4_Witness == pc = "fatal" /\ served = <<"block">> /\ debug_files = {1}

\* C5: a step of the loop in which the fetch of page i raises goes on to page
\* i+1 without leaving the loop and changes neither the accumulated records, nor
\* the failure counter, nor any file.
C5_NetworkErrorSkips ==
  [][(/\ pc = "loop"
      /\ Len(served') = Len(served) + 1
      /\ served'[Len(served')] = "neterr")
     => /\ i \in 2..last_page
        /\ i' = i + 1
        /\ pc' = "loop"
        /\ UNCHANGED <<all_rows, consecutive_blocks, debug_files, partial_csv,
                       final_csv, last_page>>]_vars

C5_Witness ==
  /\ pc = "loop" /\ Len(served) = 20 /\ served[20] = "neterr" /\ i = 21
  /\ consecutive_blocks > 0
  /\ ~partial_csv.written

\* C6: no network failure escapes main(): a run that is over without the final
\* flush is a run whose first page failed classification.
C6_NoNetworkErrorEscapes ==
  /\ pc # "crashed"
  /\ (~ENABLED Next_main /\ ~final_csv.written) => pc = "fatal"

\* C7: pages_count returns an integer of 1..MAX_PAGES for every first page.
C7_PagesCountRange == p_pc = "done" => p_result \in 1..MAX_PAGES

\* C8 as stated: once the loop is past a page index that is a multiple of 20, the
\* partial snapshot holds the records accumulated up to that index, whatever
\* happened to the pages at or before it.
C8_SnapshotEveryTwentieth ==
  LET M == {m \in 2..Len(served) : m % PARTIAL_EVERY = 0} IN
    (Passed /\ M # {}) => partial_csv = FileWith(RowsOfPages(SetMax(M)))

\* C8, amended: the partial snapshot is written only by a page whose index is a
\* multiple of 20 and which was fetched and is a listings page; it then holds
\* the records accumulated up to and including the last such page, whatever
\* happened to the pages before it; with no such page there is no snapshot.
C8_SnapshotOnListedTwentieth ==
  LET M == {m \in 2..Len(served) : m % PARTIAL_EVERY = 0 /\ Listed(m)} IN
    IF M = {} THEN ~partial_csv.written
    ELSE partial_csv = FileWith(RowsOfPages(SetMax(M)))

C8_Witness ==
  /\ pc = "done" /\ Len(served) = 41 /\ Listed(20) /\ Blocked(40)
  /\ \E k \in 2..19 : served[k] = "block"
  /\ \E k \in 2..19 : served[k] = "neterr"
  /\ partial_csv = FileWith(RowsOfPages(20))
  /\ Len(partial_csv.rows) < Len(final_csv.rows)

\* C9: every record parse_listings returns has a name that is not empty.
C9_NamesNotEmpty ==
  x_pc = "done" => \A k \in 1..Len(x_rows) : Truthy(x_rows[k].name)

====
